---- MODULE Spec2Model ----
(***************************************************************************)
(* A model of cordova-paramedic's run coordinator (lib/paramedic.js):      *)
(* ParamedicRunner.run and the promise chain it builds, the completion     *)
(* race of runLocalTests (waitForConnection / waitForTests), the global    *)
(* Q timeout, and the two .fin cleanup stages.                             *)
(*                                                                         *)
(* Promises are modelled by their state: "pending", a value or a reason.   *)
(* A settled promise never changes (Q ignores later resolve/reject calls). *)
(* Q runs every continuation on process.nextTick, so a chain of            *)
(* continuations that needs no I/O runs before any timer or I/O callback:  *)
(* such a chain is one action here.                                        *)
(***************************************************************************)
EXTENDS Integers, Sequences, FiniteSets, TLC

\* Largest specResults.specFailed the device reports in a jasmineDone payload.
MaxSpecFailed == 2

(***************************************************************************)
(* Values                                                                  *)
(***************************************************************************)
BROWSER == "browser"
WINDOWS == "windows"
IOS == "ios"
ANDROID == "android"
Platforms == {BROWSER, IOS, ANDROID, WINDOWS}
Actions == {"build", "run", "emulate"}

\* utilities.TEST_PASSED is true; a result is the boolean the promise holds.
TEST_PASSED == "passed"
TEST_FAILED == "failed"
Results == {TEST_PASSED, TEST_FAILED}

\* Error messages of lib/paramedic.js.
NoTestsMsg == "No tests to run: both --skipAppiumTests and --skipMainTests are used"
TimeoutMsg == "Timed out after waiting for <t> ms."
DisconnectMsg == "Device is disconnected before passing the tests"
ConnectionMsg == "waitForConnection: Seems like device not connected to local server in 540 secs"
TestsConnectionMsg == "waitForTests: Seems like device not connected to local server in 540 secs"
\* Context names of an automation session. indexOf('WEBVIEW') looks for a
\* substring, so a name is the sequence of its parts.
NATIVE_APP == <<"NATIVE_APP">>
ContextNames == {NATIVE_APP, <<"WEBVIEW", "_1">>, <<"WEBVIEW", "_2">>, <<"CHROMIUM">>}
NoDeviceNameMsg == "Cannot determine local device name for Appium"
\* Reasons produced by the collaborators and by the JavaScript runtime.
TempProjectErr == "createTempProject failed"
PrepareErr == "prepareProjectToRunTests failed"
ServerErr == "startServer failed"
FileTransferErr == "startFileTransferServer failed"
TargetErr == "chooseTarget failed"
LaunchErr == "launch command failed"
SauceErr == "runSauceTests failed"
AppiumErr == "appium runTests failed"
UninstallErr == "uninstallApp failed"
ServerTypeError == "TypeError: Cannot read property 'startFileTransferServer' of undefined"
TempFolderTypeError == "TypeError: Cannot read property 'name' of null"

\* `new Error(error)`: the message of the new error is String(error),
\* which for an Error is "Error: " followed by its message; a TypeError
\* prints with its own name.
ErrorToString(reason) ==
    IF reason \in {ServerTypeError, TempFolderTypeError} THEN reason ELSE "Error: " \o reason

WrapError(reason) == ErrorToString(reason)

(***************************************************************************)
(* State                                                                   *)
(***************************************************************************)
VARIABLES
    config,          \* this.config: the options of the run (read-only)
    chainPc,         \* position of the promise chain built by run()
    tempFolder,      \* this.tempFolder: "null", "created" or "deleted"
    server,          \* this.server: "undefined", "started" or "cleaned"
    targetObj,       \* this.targetObj: "undefined" or "chosen"
    targetWrites,    \* number of assignments to this.targetObj
    launch,          \* the launch command: "none","running","ok","failed","killed"
    race,            \* the promise of runLocalTests lines 267-272
    testsPromise,    \* the promise returned by waitForTests
    deadline,        \* the two INITIAL_CONNECTION_TIMEOUT timers
    deviceConnected, \* server.isDeviceConnected()
    doneReceived,    \* the jasmineDone listener of waitForTests has been called
    specFailed,      \* specResults.specFailed of the payload that resolved waitForTests
    firstSignal,     \* the first completion signal that fired while the race was open
    localResult,     \* what Q.all / runLocalTests settled with
    mainResult,      \* isTestPassed of runTests
    appiumResult,    \* isAppiumTestPassed of runTests
    chainResult,     \* the promise run() puts under .timeout
    globalTimer,     \* the timer of .timeout: "unarmed","armed","fired","cleared"
    outcome,         \* the promise after .timeout and .catch
    cleanPc,         \* position of the two .fin stages
    finError,        \* reason thrown by the first .fin callback
    runResult,       \* the promise run() returns
    cleanupLog,      \* the cleanup steps executed, in order
    targetReads,     \* the values of this.targetObj each of its readers has read
    \* wdHelper.pollForEvents and the page it polls
    pollPc,          \* position of the pollForEvents call in progress
    platform,        \* argument platform
    skipBuster,      \* argument skipBuster
    windowOffset,    \* argument windowOffset of the current (recursive) call
    retries,         \* argument retries of the current (recursive) call
    windowHandles,   \* the handles driver.windowHandles() returns
    focus,           \* the window the session is switched to
    cacheWindow,     \* the window whose page holds _jasmineParamedicProxyCache, 0 if none
    cache,           \* window._jasmineParamedicProxyCache in that page
    appended,        \* number of events the app has appended so far
    delivered,       \* the events returned by the polls so far, in order
    batch,           \* what the last finished poll returned
    pollError,       \* the error the last finished poll failed with
    polls,           \* number of top-level pollForEvents calls
    firstOffset,     \* windowOffset of the top-level call, defaulted
    budget,          \* retries of the top-level call, defaulted
    reads,           \* executions of the read script in the current poll
    absentReads,     \* those that returned null
    reloads,         \* page reloads in the current poll
    \* wdHelper.getWebviewContext: the call in progress
    \*   pc       position of the call
    \*   arg      argument retries of the outermost call, <<>> if not given
    \*   retries  retries of the current (recursive) call
    \*   contexts the list the last driver.contexts() resolved with
    \*   queries  number of driver.contexts() commands of the outermost call
    \*   result   the context returned, or the reason of the failure
    wv,
    \* the connect step of common.spec.js
    \*   pc             position of 'should connect to an appium endpoint properly'
    \*   attempts       number of getDriver() calls
    \*   failedToStart  the flag of line 13
    \*   sessionCreated some getDriver() promise has resolved
    \*   failCalls      number of calls of jasmine's fail
    \*   throwOnFail    jasmine is configured to throw on a failed expectation
    \*   webviewContext the variable of line 10
    conn,
    \* wdHelper.bustAlert and the session it acts on
    \*   pc              position of the call
    \*   platform        argument platform
    \*   sessionContext  the context the automation session is in
    \*   startContext    the context the session was in when bustAlert was called
    \*   previousContext the local of line 258, <<>> while undefined
    \*   alert           "none", "present" or "dismissed"
    \*   error           the reason bustAlert failed with
    ba

chainVars == <<chainPc, tempFolder, server, targetObj, targetWrites, appiumResult, localResult,
               mainResult, chainResult>>
raceVars == <<launch, race, testsPromise, deadline, deviceConnected, doneReceived, specFailed, firstSignal>>
settleVars == <<globalTimer, outcome, cleanPc>>
cleanVars == <<finError, runResult, cleanupLog, targetReads>>
runVars == <<config, chainVars, raceVars, settleVars, cleanVars>>
pollVars == <<pollPc, platform, skipBuster, windowOffset, retries, windowHandles, focus,
              cacheWindow, cache, appended, delivered, batch, pollError, polls,
              firstOffset, budget, reads, absentReads, reloads>>
wdVars == <<wv, conn, ba>>
vars == <<runVars, pollVars, wdVars>>

\* The configurations of a run. --args with appx=8.1-phone only matters on Windows.
Configs ==
    { c \in [ platform : Platforms, action : Actions, runMainTests : BOOLEAN,
              runAppiumTests : BOOLEAN, shouldUseSauce : BOOLEAN,
              shouldCleanUpAfterRun : BOOLEAN, fileTransfer : BOOLEAN,
              phoneArgs : BOOLEAN ] :
        c.phoneArgs => c.platform = WINDOWS }

\* The readers of this.targetObj: collectDeviceLogs, uninstallApp and the
\* options of runAppiumTests.
TargetReaders == {"logs", "uninstall", "appium"}

isBrowser == config.platform = BROWSER
isWindows == config.platform = WINDOWS
isIos == config.platform = IOS

\* No pollForEvents call has been made.
PollerIdle ==
    /\ pollPc = "idle"
    /\ platform = ANDROID
    /\ skipBuster = FALSE
    /\ windowOffset = 0
    /\ retries = 0
    /\ windowHandles = <<1>>
    /\ focus = 1
    /\ cacheWindow = 0
    /\ cache = <<>>
    /\ appended = 0
    /\ delivered = <<>>
    /\ batch = <<>>
    /\ pollError = "none"
    /\ polls = 0
    /\ firstOffset = 0
    /\ budget = 0
    /\ reads = 0
    /\ absentReads = 0
    /\ reloads = 0

\* The runner as its constructor leaves it, lines 47-58.
RunnerInit ==
    /\ chainPc = "start"
    /\ tempFolder = "null"
    /\ server = "undefined"
    /\ targetObj = "undefined"
    /\ targetWrites = 0
    /\ launch = "none"
    /\ race = "none"
    /\ testsPromise = "none"
    /\ deadline = "unarmed"
    /\ deviceConnected = FALSE
    /\ doneReceived = FALSE
    /\ specFailed = -1
    /\ firstSignal = "none"
    /\ localResult = "pending"
    /\ mainResult = "unknown"
    /\ appiumResult = "unknown"
    /\ chainResult = "pending"
    /\ globalTimer = "unarmed"
    /\ outcome = "pending"
    /\ cleanPc = "idle"
    /\ finError = "none"
    /\ runResult = "pending"
    /\ cleanupLog = <<>>
    /\ targetReads = [reader \in TargetReaders |-> {}]

\* No call of wdHelper.getWebviewContext or wdHelper.bustAlert is in
\* progress and the connect step has not started.
\* The arguments and locals of a call exist from its entry on; of the
\* connect step's variables only the flag of line 13 is set before the step.
WdIdle ==
    /\ wv = [pc |-> "idle"]
    /\ conn = [pc |-> "idle", failedToStart |-> TRUE]
    /\ ba = [pc |-> "idle"]

Init ==
    /\ config \in Configs
    /\ RunnerInit
    /\ PollerIdle
    /\ WdIdle

(***************************************************************************)
(* Promise plumbing                                                        *)
(***************************************************************************)
\* deferred.resolve / deferred.reject of Q: only a pending promise changes.
Resolve(promise, value) == IF promise = "pending" THEN value ELSE promise

\* Mutant: a reject that overwrites a settled promise.
RejectSettled(promise, reason) == reason

Reject(promise, reason) == IF promise = "pending" THEN reason ELSE promise

\* `this.waitForTests().then(resolve)`: resolve is called with the value of a
\* resolved waitForTests promise; .then has no rejection handler here.
ThenResolve(racePromise, tests) ==
    IF tests \in Results THEN Resolve(racePromise, tests) ELSE racePromise

\* Mutant: waitForConnection() is called without .catch(reject).
CatchRejectDropped(racePromise, connection) == racePromise

\* `this.waitForConnection().catch(reject)`: reject is called with the
\* reason of a rejected waitForConnection promise.
CatchReject(racePromise, connection) ==
    IF connection = "resolved" THEN racePromise ELSE Reject(racePromise, connection)

\* Mutant: the timer callback rejects without asking isDeviceConnected().
waitForConnectionUnchecked(connected) == ConnectionMsg

\* The timer callback of waitForConnection.
waitForConnection(connected) == IF connected THEN "resolved" ELSE ConnectionMsg

\* The timer callback of waitForTests: rejects only when no device is connected.
waitForTestsTimer(promise, connected) ==
    IF connected THEN promise ELSE Reject(promise, TestsConnectionMsg)

\* Mutant: one failed spec is still taken as passed.
IsTestPassedOffByOne(n) == IF n <= 1 THEN TEST_PASSED ELSE TEST_FAILED

\* resolve((data.specResults.specFailed === 0))
IsTestPassed(n) == IF n = 0 THEN TEST_PASSED ELSE TEST_FAILED

shouldWaitForTestResult == config.action \in {"run", "emulate"}

\* Mutant: the timer is not cleared when the promise under it settles.
TimeoutNotCleared == globalTimer \in {"armed", "cleared"}

\* Mutant: the chain settling after the timeout still settles the run.
TimeoutNotFinal == globalTimer \in {"armed", "fired"}

\* .timeout(): the timer is cleared when the promise under it settles, and
\* it rejects only a promise that is still pending.
TimeoutPending == globalTimer = "armed"

\* Mutant: the handler of .catch returns a failed result instead of throwing.
CatchHandlerSwallow(res) == IF res \in Results THEN res ELSE TEST_FAILED

\* .catch((error) => { throw new Error(error) }): a value passes through.
CatchHandler(res) == IF res \in Results THEN res ELSE WrapError(res)

\* The chain goes on to its next continuation.
ChainContinues(pc) ==
    /\ chainPc' = pc
    /\ UNCHANGED <<chainResult, settleVars>>

\* The promise under .timeout settles with res; if the timeout has not
\* fired, .catch and the first .fin follow.
ChainSettles(res) ==
    /\ chainPc' = "settled"
    /\ chainResult' = res
    /\ IF TimeoutPending
       THEN /\ outcome' = CatchHandler(res)
            /\ globalTimer' = "cleared"
            /\ cleanPc' = "fin1"
       ELSE UNCHANGED settleVars

\* A continuation of the chain produced res: a value goes to the next
\* continuation, a reason rejects the whole chain.
ThenOrReject(res, pc) ==
    IF res = "ok" \/ res \in Results THEN ChainContinues(pc) ELSE ChainSettles(res)

\* Mutant: the command is spawned and not waited for on every platform.
LaunchElementDetached(l) == "resolved"

\* The first element of Q.all: execPromise(command), or undefined at once on
\* the browser platform, where the command is spawned with cp.exec.
LaunchElement(l) ==
    IF isBrowser THEN "resolved"
    ELSE IF l = "failed" THEN "rejected"
    ELSE IF l = "ok" THEN "resolved"
    ELSE "pending"

\* Q.all([launch, race]) followed by results[1].
AllSettle(l, r) ==
    IF LaunchElement(l) = "rejected" THEN LaunchErr
    ELSE IF r \notin Results \cup {"pending"} THEN r
    ELSE IF LaunchElement(l) = "resolved" /\ r \in Results THEN r
    ELSE "pending"

\* An event reached the launch command or the race: Q.all may settle.
PhaseStep(l, r) ==
    IF chainPc = "mainPhase"
    THEN /\ localResult' = AllSettle(l, r)
         /\ chainPc' = IF AllSettle(l, r) = "pending" THEN "mainPhase" ELSE "localFin"
    ELSE UNCHANGED <<localResult, chainPc>>

\* The first completion signal that fires while the race is open.
RecordSignal(sig) ==
    firstSignal' = IF /\ firstSignal = "none"
                      /\ outcome = "pending"
                      /\ (sig = "TimedOut" \/ chainPc = "mainPhase")
                   THEN sig ELSE firstSignal

(***************************************************************************)
(* run(): configuration check, project, server                             *)
(***************************************************************************)
\* run(), lines 60-65 and the .timeout call: checkConfig throws synchronously,
\* otherwise the chain is built and the global timer armed.
\* Mutant: checkConfig without the check of line 150.
NoTestsCheckSkipped == FALSE

\* The condition of checkConfig, line 150.
NoTestsToRun == ~config.runMainTests /\ ~config.runAppiumTests

Run ==
    /\ chainPc = "start"
    /\ IF NoTestsToRun
       THEN /\ chainPc' = "thrown"
            /\ runResult' = NoTestsMsg
            /\ UNCHANGED globalTimer
       ELSE /\ chainPc' = "createProject"
            /\ globalTimer' = "armed"
            /\ UNCHANGED runResult
    /\ UNCHANGED <<pollVars, wdVars, config, tempFolder, server, targetObj, targetWrites, appiumResult, localResult,
                   mainResult, chainResult, raceVars, outcome, cleanPc, finError, cleanupLog,
                   targetReads>>

\* First continuation: createTempProject (synchronous), pushd, then
\* prepareProjectToRunTests is started.
createTempProject ==
    /\ chainPc = "createProject"
    /\ \E ok \in BOOLEAN :
          IF ok
          THEN tempFolder' = "created" /\ ChainContinues("prepare")
          ELSE UNCHANGED tempFolder /\ ChainSettles(TempProjectErr)
    /\ UNCHANGED <<pollVars, wdVars, config, server, targetObj, targetWrites, appiumResult, localResult, mainResult,
                   raceVars, cleanVars>>

\* prepareProjectToRunTests settles; with main tests the server start follows.
prepareProjectToRunTests ==
    /\ chainPc = "prepare"
    /\ \E ok \in BOOLEAN :
          IF ok
          THEN ChainContinues(IF config.runMainTests THEN "startServer" ELSE "runTests")
          ELSE ChainSettles(PrepareErr)
    /\ UNCHANGED <<pollVars, wdVars, config, tempFolder, server, targetObj, targetWrites, appiumResult, localResult,
                   mainResult, raceVars, cleanVars>>

\* Server.startServer settles; this.server is assigned and reporters and
\* event subscriptions are installed on it.
startServer ==
    /\ chainPc = "startServer"
    /\ \E ok \in BOOLEAN :
          IF ok
          THEN server' = "started" /\ ChainContinues("runTests")
          ELSE UNCHANGED server /\ ChainSettles(ServerErr)
    /\ UNCHANGED <<pollVars, wdVars, config, tempFolder, targetObj, targetWrites, appiumResult, localResult, mainResult,
                   raceVars, cleanVars>>

(***************************************************************************)
(* runTests / runLocalTests                                                *)
(***************************************************************************)
\* runTests and the synchronous head of runLocalTests: Sauce Labs runs go
\* to runSauceTests; skipped main tests report passed at once unless the
\* platform is Android.
runTests ==
    /\ chainPc = "runTests"
    /\ IF config.shouldUseSauce
       THEN ChainContinues("sauceTests") /\ UNCHANGED mainResult
       ELSE IF ~config.runMainTests /\ config.platform # ANDROID
       THEN ChainContinues("appium") /\ mainResult' = TEST_PASSED
       ELSE ChainContinues("fileTransfer") /\ UNCHANGED mainResult
    /\ UNCHANGED <<pollVars, wdVars, config, tempFolder, server, targetObj, targetWrites, appiumResult, localResult,
                   raceVars, cleanVars>>

\* paramedicSauceLabs.runSauceTests settles.
runSauceTests ==
    /\ chainPc = "sauceTests"
    /\ \E res \in Results \cup {SauceErr} :
          /\ ThenOrReject(res, "appium")
          /\ mainResult' = IF res \in Results THEN res ELSE mainResult
    /\ UNCHANGED <<pollVars, wdVars, config, tempFolder, server, targetObj, targetWrites, appiumResult, localResult,
                   raceVars, cleanVars>>

\* maybeRunFileTransferServer: with the file-transfer plugin (and no external
\* file-transfer server, no CI) this.server.startFileTransferServer is called.
maybeRunFileTransferServer ==
    /\ chainPc = "fileTransfer"
    /\ IF ~config.fileTransfer
       THEN ChainContinues("getCommand")
       ELSE IF server = "undefined"
       THEN ChainSettles(ServerTypeError)
       ELSE \E res \in {"ok", FileTransferErr} : ThenOrReject(res, "getCommand")
    /\ UNCHANGED <<pollVars, wdVars, config, tempFolder, server, targetObj, targetWrites, appiumResult, localResult,
                   mainResult, raceVars, cleanVars>>

\* getCommandForStartingTests chooses no target on the browser, for a build
\* and for a Windows store app.
NeedsTarget ==
    /\ ~isBrowser
    /\ ~(config.action = "build" \/ (isWindows /\ ~config.phoneArgs))

getCommandForStartingTests ==
    /\ chainPc = "getCommand"
    /\ ChainContinues(IF NeedsTarget THEN "chooseTarget" ELSE "launch")
    /\ UNCHANGED <<pollVars, wdVars, config, tempFolder, server, targetObj, targetWrites, appiumResult, localResult,
                   mainResult, raceVars, cleanVars>>

\* ParamedicTargetChooser.chooseTarget settles; this.targetObj is assigned.
chooseTarget ==
    /\ chainPc = "chooseTarget"
    /\ \E res \in {"ok", TargetErr} :
          /\ ThenOrReject(res, "launch")
          /\ IF res = "ok"
             THEN targetObj' = "chosen" /\ targetWrites' = targetWrites + 1
             ELSE UNCHANGED <<targetObj, targetWrites>>
    /\ UNCHANGED <<pollVars, wdVars, config, tempFolder, server, appiumResult, localResult, mainResult,
                   raceVars, cleanVars>>

\* Mutant: the race is started although main tests are skipped.
RaceStartUnchecked == IF shouldWaitForTestResult THEN "pending" ELSE TEST_PASSED

\* The second element of Q.all, lines 257-276: the promise the main-test
\* result comes from, and whether the race is started.
RaceStart ==
    IF ~config.runMainTests THEN TEST_PASSED
    ELSE IF shouldWaitForTestResult THEN "pending"
    ELSE TEST_PASSED

\* The continuation of lines 240-279: the command is issued (execPromise, or
\* cp.exec on the browser) and, when a result is waited for, both
\* connection timers are set and the jasmineDone / disconnect listeners
\* registered.
launchCommand ==
    /\ chainPc = "launch"
    /\ launch' = "running"
    /\ race' = RaceStart
    /\ testsPromise' = IF RaceStart = "pending" THEN "pending" ELSE testsPromise
    /\ deadline' = IF RaceStart = "pending" THEN "armed" ELSE deadline
    /\ localResult' = AllSettle("running", RaceStart)
    /\ chainPc' = IF AllSettle("running", RaceStart) = "pending" THEN "mainPhase" ELSE "localFin"
    /\ UNCHANGED <<pollVars, wdVars, config, tempFolder, server, targetObj, targetWrites, appiumResult, mainResult,
                   chainResult, deviceConnected, doneReceived, specFailed, firstSignal,
                   settleVars, cleanVars>>

\* The launch command exits. On the browser this is the cp.exec callback
\* (runProcess = null); it cannot run between Q.all settling and the .fin of
\* runLocalTests, which are continuations of one tick.
launchExit ==
    /\ launch = "running"
    /\ chainPc # "localFin"
    /\ \E code \in {"ok", "failed"} :
          /\ launch' = code
          /\ PhaseStep(code, race)
    /\ UNCHANGED <<pollVars, wdVars, config, tempFolder, server, targetObj, targetWrites, appiumResult, mainResult,
                   chainResult, race, testsPromise, deadline, deviceConnected,
                   doneReceived, specFailed, firstSignal, settleVars, cleanVars>>

(***************************************************************************)
(* The Reporting Channel and the completion race                           *)
(***************************************************************************)
\* A device connects to the started server.
deviceConnect ==
    /\ server = "started"
    /\ ~deviceConnected
    /\ deviceConnected' = TRUE
    /\ UNCHANGED <<pollVars, wdVars, config, chainVars, launch, race, testsPromise, deadline, doneReceived,
                   specFailed, firstSignal, settleVars, cleanVars>>

\* The server emits `disconnect`: the listener of waitForTests rejects its
\* promise (lines 404-406).
disconnect ==
    /\ deviceConnected
    /\ deviceConnected' = FALSE
    /\ testsPromise' = Reject(testsPromise, DisconnectMsg)
    /\ race' = ThenResolve(race, Reject(testsPromise, DisconnectMsg))
    /\ PhaseStep(launch, ThenResolve(race, Reject(testsPromise, DisconnectMsg)))
    /\ RecordSignal(IF testsPromise = "pending" THEN "Disconnected" ELSE firstSignal)
    /\ UNCHANGED <<pollVars, wdVars, config, tempFolder, server, targetObj, targetWrites, appiumResult, mainResult,
                   chainResult, launch, deadline, doneReceived, specFailed, settleVars,
                   cleanVars>>

\* The server emits `jasmineDone` with specResults.specFailed = n: the
\* listener of waitForTests resolves its promise (lines 397-402), and
\* .then(resolve) hands the value to the race.
jasmineDone ==
    /\ server = "started"
    /\ deviceConnected
    /\ testsPromise # "none"
    /\ \E n \in 0..MaxSpecFailed :
          /\ testsPromise' = Resolve(testsPromise, IsTestPassed(n))
          /\ race' = IF testsPromise = "pending"
                     THEN ThenResolve(race, Resolve(testsPromise, IsTestPassed(n)))
                     ELSE race
          /\ PhaseStep(launch, IF testsPromise = "pending"
                               THEN ThenResolve(race, Resolve(testsPromise, IsTestPassed(n)))
                               ELSE race)
          /\ specFailed' = IF testsPromise = "pending" THEN n ELSE specFailed
          /\ RecordSignal(IF testsPromise = "pending" THEN IsTestPassed(n) ELSE firstSignal)
    /\ doneReceived' = TRUE
    /\ UNCHANGED <<pollVars, wdVars, config, tempFolder, server, targetObj, targetWrites, appiumResult, mainResult,
                   chainResult, launch, deadline, deviceConnected, settleVars, cleanVars>>

\* INITIAL_CONNECTION_TIMEOUT passes: the timers of waitForConnection and of
\* waitForTests were set in the same tick with the same delay and fire one
\* after the other, waitForConnection first.
connectionDeadline ==
    /\ deadline = "armed"
    /\ deadline' = IF deviceConnected THEN "inert" ELSE "expired"
    /\ race' = CatchReject(race, waitForConnection(deviceConnected))
    /\ testsPromise' = waitForTestsTimer(testsPromise, deviceConnected)
    /\ PhaseStep(launch, CatchReject(race, waitForConnection(deviceConnected)))
    /\ RecordSignal(IF CatchReject(race, waitForConnection(deviceConnected)) # race
                    THEN "NeverConnected" ELSE firstSignal)
    /\ UNCHANGED <<pollVars, wdVars, config, tempFolder, server, targetObj, targetWrites, appiumResult, mainResult,
                   chainResult, launch, deviceConnected, doneReceived, specFailed,
                   settleVars, cleanVars>>

\* Mutant: the .fin of runLocalTests never kills.
RunProcessForgotten == FALSE

\* runProcess in the .fin of runLocalTests, line 284: set by cp.exec on the
\* browser (line 252) and reset to null by its exit callback.
RunProcessAlive == isBrowser /\ launch = "running"

\* runLocalTests' .fin (lines 283-291): a browser process that is still
\* running is killed first; otherwise the result goes on to runTests.
localTestsFin ==
    /\ chainPc = "localFin"
    /\ IF RunProcessAlive
       THEN ChainContinues("killing") /\ UNCHANGED mainResult
       ELSE /\ ThenOrReject(localResult, "appium")
            /\ mainResult' = IF localResult \in Results THEN localResult ELSE mainResult
    /\ UNCHANGED <<pollVars, wdVars, config, tempFolder, server, targetObj, targetWrites, appiumResult, localResult,
                   raceVars, cleanVars>>

\* utilities.killProcess calls back (tree-kill, then one second): the .fin
\* passes the settled result of runLocalTests through unchanged.
killProcess ==
    /\ chainPc = "killing"
    /\ launch' = IF launch = "running" THEN "killed" ELSE launch
    /\ ThenOrReject(localResult, "appium")
    /\ mainResult' = IF localResult \in Results THEN localResult ELSE mainResult
    /\ UNCHANGED <<pollVars, wdVars, config, tempFolder, server, targetObj, targetWrites, appiumResult, localResult,
                   race, testsPromise, deadline, deviceConnected, doneReceived,
                   specFailed, firstSignal, cleanVars>>

(***************************************************************************)
(* runAppiumTests and the end of the chain                                 *)
(***************************************************************************)
\* isTestPassed === TEST_PASSED && isAppiumTestPassed === TEST_PASSED
\* Mutant: one passed phase is enough.
CombineResultsOr(main, appium) ==
    IF main = TEST_PASSED \/ appium = TEST_PASSED THEN TEST_PASSED ELSE TEST_FAILED

CombineResults(main, appium) ==
    IF main = TEST_PASSED /\ appium = TEST_PASSED THEN TEST_PASSED ELSE TEST_FAILED

\* The synchronous checks of runAppiumTests, lines 302-317: "skip" (passed),
\* a thrown error, or "run".
AppiumDecision ==
    IF config.action = "build" THEN "skip"
    ELSE IF ~config.runAppiumTests THEN "skip"
    ELSE IF config.platform \notin {ANDROID, IOS} THEN "skip"
    ELSE IF ~config.shouldUseSauce /\ targetObj = "undefined" THEN NoDeviceNameMsg
    ELSE "run"

runAppiumTests ==
    /\ chainPc = "appium"
    /\ IF AppiumDecision = "skip"
       THEN /\ ChainSettles(CombineResults(mainResult, TEST_PASSED))
            /\ appiumResult' = TEST_PASSED
            /\ UNCHANGED targetReads
       ELSE IF AppiumDecision = "run"
       THEN /\ ChainContinues("appiumRunning")
            /\ targetReads' = [targetReads EXCEPT !["appium"] = @ \cup {targetObj}]
            /\ UNCHANGED appiumResult
       ELSE /\ ChainSettles(AppiumDecision)
            /\ UNCHANGED <<appiumResult, targetReads>>
    /\ UNCHANGED <<pollVars, wdVars, config, tempFolder, server, targetObj, targetWrites, localResult,
                   mainResult, raceVars, finError, runResult, cleanupLog>>

\* The Appium runner settles (no test paths found counts as passed).
appiumRunnerDone ==
    /\ chainPc = "appiumRunning"
    /\ \E res \in Results \cup {AppiumErr} :
          /\ ChainSettles(IF res \in Results THEN CombineResults(mainResult, res) ELSE res)
          /\ appiumResult' = IF res \in Results THEN res ELSE appiumResult
    /\ UNCHANGED <<pollVars, wdVars, config, tempFolder, server, targetObj, targetWrites, localResult,
                   mainResult, raceVars, cleanVars>>

\* The timer of .timeout fires: the promise is rejected, .catch wraps the
\* reason and the first .fin follows. The chain under it is not cancelled.
\* The first continuation of the chain runs on the tick after run(), before
\* any timer.
globalTimeout ==
    /\ TimeoutPending
    /\ chainPc # "createProject"
    /\ globalTimer' = "fired"
    /\ outcome' = CatchHandler(TimeoutMsg)
    /\ cleanPc' = "fin1"
    /\ RecordSignal("TimedOut")
    /\ UNCHANGED <<pollVars, wdVars, config, chainVars, launch, race, testsPromise, deadline,
                   deviceConnected, doneReceived, specFailed, cleanVars>>

(***************************************************************************)
(* Cleanup: the two .fin callbacks of run()                                *)
(***************************************************************************)
\* killEmulatorProcess: ParamedicKill runs only with shouldCleanUpAfterRun.
killEmulatorProcess ==
    IF config.shouldCleanUpAfterRun THEN <<"killEmulatorProcess", "kill">>
    ELSE <<"killEmulatorProcess">>

\* Mutant: the action is looked at before shouldUseSauce.
CleanupBranchActionFirst ==
    IF config.action # "build" THEN "device"
    ELSE IF config.shouldUseSauce THEN "sauce"
    ELSE "none"

\* The branch the first .fin callback takes, lines 109-126.
CleanupBranch ==
    IF config.shouldUseSauce THEN "sauce"
    ELSE IF config.action # "build" THEN "device"
    ELSE "none"

\* Mutant: the second callback is attached with .then, not .fin.
AfterFirstFinThen(thrown) == IF thrown # "none" THEN "done" ELSE "fin2"

\* The stage that follows the first .fin callback, line 128: .fin runs its
\* callback whether the promise before it was fulfilled or rejected.
AfterFirstFin(thrown) == "fin2"

\* First .fin callback, lines 101-127. Sauce runs fetch the Sauce details;
\* a build does nothing; otherwise collectDeviceLogs runs and uninstallApp is
\* started. collectDeviceLogs reads this.tempFolder.name before
\* this.targetObj: with no temp folder it throws, and the callback with it.
deviceCleanup ==
    /\ cleanPc = "fin1"
    /\ IF CleanupBranch = "sauce"
       THEN /\ cleanupLog' = cleanupLog \o <<"deviceCleanup", "displaySauceDetails">>
            /\ cleanPc' = "sauceDetails"
            /\ UNCHANGED <<finError, targetReads>>
       ELSE IF CleanupBranch = "device"
       THEN IF tempFolder = "null"
            THEN /\ cleanupLog' = cleanupLog \o <<"deviceCleanup", "collectDeviceLogs">>
                 /\ finError' = TempFolderTypeError
                 /\ cleanPc' = AfterFirstFin(TempFolderTypeError)
                 /\ UNCHANGED targetReads
            ELSE /\ cleanupLog' = cleanupLog \o <<"deviceCleanup", "collectDeviceLogs",
                                                  "collectLogs", "uninstallApp">>
                 /\ targetReads' = [targetReads EXCEPT !["logs"] = @ \cup {targetObj},
                                                       !["uninstall"] = @ \cup {targetObj}]
                 /\ cleanPc' = "uninstalling"
                 /\ UNCHANGED finError
       ELSE /\ cleanupLog' = cleanupLog \o <<"deviceCleanup">>
            /\ cleanPc' = AfterFirstFin("none")
            /\ UNCHANGED <<finError, targetReads>>
    /\ UNCHANGED <<pollVars, wdVars, config, chainVars, raceVars, globalTimer, outcome, runResult>>

\* displaySauceDetails settles.
displaySauceDetails ==
    /\ cleanPc = "sauceDetails"
    /\ cleanPc' = AfterFirstFin("none")
    /\ UNCHANGED <<pollVars, wdVars, config, chainVars, raceVars, globalTimer, outcome, cleanVars>>

\* Mutant: the handler of .fail throws the reason again.
FailHandlerRethrow(reason) == reason

\* The handler of .fail, line 118: an empty function, so the rejection of
\* uninstallApp becomes a fulfilment.
FailHandler(reason) == "none"

\* Mutant: killEmulatorProcess is called without waiting for uninstallApp.
KillBeforeSettled(settled) == killEmulatorProcess \o <<settled>>

\* Lines 117-122: the callback of .fin runs once uninstallApp has settled.
KillAfterSettled(settled) == <<settled>> \o killEmulatorProcess

\* uninstallApp settles: .fail swallows a rejection, .fin calls
\* killEmulatorProcess.
uninstallApp ==
    /\ cleanPc = "uninstalling"
    /\ \E ok \in BOOLEAN :
          /\ cleanupLog' = cleanupLog
                           \o KillAfterSettled(IF ok THEN "uninstalled" ELSE "uninstallFailed")
          /\ finError' = IF ok THEN "none" ELSE FailHandler(UninstallErr)
          /\ cleanPc' = AfterFirstFin(finError')
    /\ UNCHANGED <<pollVars, wdVars, config, chainVars, raceVars, globalTimer, outcome, runResult, targetReads>>

\* What the second .fin leaves in the promise run() returns: a reason thrown
\* by a .fin callback replaces the outcome.
FinResult(thrown) ==
    IF thrown # "none" THEN thrown
    ELSE IF finError # "none" THEN finError
    ELSE outcome

\* Second .fin callback: cleanUpProject, lines 462-469.
cleanUpProject ==
    /\ cleanPc = "fin2"
    /\ server' = IF server # "undefined" THEN "cleaned" ELSE server
    /\ LET serverPart == IF server # "undefined" THEN <<"server.cleanUp">> ELSE <<>>
           thrown == IF config.shouldCleanUpAfterRun /\ tempFolder = "null"
                     THEN TempFolderTypeError ELSE "none"
           rmPart == IF config.shouldCleanUpAfterRun /\ tempFolder # "null"
                     THEN <<"rm">> ELSE <<>>
       IN /\ cleanupLog' = cleanupLog \o <<"cleanUpProject">> \o serverPart \o rmPart
          /\ tempFolder' = IF config.shouldCleanUpAfterRun /\ tempFolder # "null"
                           THEN "deleted" ELSE tempFolder
          /\ runResult' = FinResult(thrown)
    /\ cleanPc' = "done"
    /\ UNCHANGED <<pollVars, wdVars, config, chainPc, targetObj, targetWrites, appiumResult, localResult, mainResult,
                   chainResult, raceVars, globalTimer, outcome, finError, targetReads>>

(***************************************************************************)
(* The specification                                                       *)
(***************************************************************************)
Next ==
    \/ Run
    \/ createTempProject
    \/ prepareProjectToRunTests
    \/ startServer
    \/ runTests
    \/ runSauceTests
    \/ maybeRunFileTransferServer
    \/ getCommandForStartingTests
    \/ chooseTarget
    \/ launchCommand
    \/ launchExit
    \/ deviceConnect
    \/ disconnect
    \/ jasmineDone
    \/ connectionDeadline
    \/ localTestsFin
    \/ killProcess
    \/ runAppiumTests
    \/ appiumRunnerDone
    \/ globalTimeout
    \/ deviceCleanup
    \/ displaySauceDetails
    \/ uninstallApp
    \/ cleanUpProject

Spec == Init /\ [][Next]_vars

\* Scheduling: the event loop runs the first continuation and every armed
\* timer that is not cleared, Q calls the .fin callbacks of a settled
\* promise, and the promises of uninstallApp and displaySauceDetails settle.
FairSpec ==
    /\ Spec
    /\ WF_vars(createTempProject)
    /\ WF_vars(globalTimeout)
    /\ WF_vars(connectionDeadline)
    /\ WF_vars(localTestsFin)
    /\ WF_vars(deviceCleanup)
    /\ WF_vars(displaySauceDetails)
    /\ WF_vars(uninstallApp)
    /\ WF_vars(cleanUpProject)

(***************************************************************************)
(* Properties                                                              *)
(***************************************************************************)
\* Number of times a cleanup step was executed.
Count(step) == Cardinality({i \in DOMAIN cleanupLog : cleanupLog[i] = step})

CleanupOnce == Count("deviceCleanup") = 1 /\ Count("cleanUpProject") = 1

\* The steps that are a `disconnect` event, and an expiry of the connection
\* deadline with no device connected.
DisconnectStep == deviceConnected /\ ~deviceConnected'

ExpiryStep == deadline = "armed" /\ deadline' = "expired"

CleanupSafety ==
    /\ Count("deviceCleanup") <= 1
    /\ Count("cleanUpProject") <= 1
    /\ Count("cleanUpProject") <= Count("deviceCleanup")
    /\ (cleanupLog # <<>> => outcome # "pending")
    /\ (cleanPc = "done" => CleanupOnce)
    /\ (runResult # "pending" /\ chainPc # "thrown" => cleanPc = "done")

\* C1: in a run that passed the configuration check, the device-side cleanup
\* stage and cleanUpProject are each entered at most once, never before the
\* outcome of the run is settled, cleanUpProject only after the device-side
\* stage; and every such run comes to its end with each entered exactly once.
C1_CleanupExactlyOnce ==
    /\ []CleanupSafety
    /\ (chainPc = "createProject") ~> (cleanPc = "done" /\ CleanupOnce)

C1_Witness ==
    /\ cleanPc = "done"
    /\ CleanupOnce
    /\ outcome \notin Results
    /\ chainResult = TempProjectErr

TimeoutSafety ==
    /\ (globalTimer = "fired" =>
            /\ outcome = WrapError(TimeoutMsg)
            /\ runResult \in {"pending", WrapError(TimeoutMsg)}
            /\ Count("deviceCleanup") <= 1
            /\ (cleanPc = "done" => runResult = WrapError(TimeoutMsg) /\ CleanupOnce))
    /\ (globalTimer = "armed" => cleanupLog = <<>>)

\* C2: once the global timeout has fired, the outcome of the run is the
\* wrapped 'Timed out after waiting' error, whatever the abandoned chain does
\* afterwards; run() then ends with that error, never with a result, after
\* the cleanup stages have run exactly once; and a pending race does not
\* keep the run open: the race settles or the run is settled over it.
C2_TimeoutFailsRun ==
    /\ []TimeoutSafety
    /\ (globalTimer = "fired") ~>
           (cleanPc = "done" /\ runResult = WrapError(TimeoutMsg) /\ CleanupOnce)
    /\ (chainPc = "mainPhase" /\ race = "pending") ~> (race # "pending" \/ outcome # "pending")

C2_Witness ==
    /\ globalTimer = "fired"
    /\ race = "pending"
    /\ deadline = "armed"
    /\ cleanPc = "done"
    /\ runResult = WrapError(TimeoutMsg)

\* C3 (as claimed): a `disconnect` event while the completion race is pending
\* settles the race with the 'Device is disconnected' failure.
C3_DisconnectSettlesRace ==
    [][(race = "pending" /\ DisconnectStep) => race' = DisconnectMsg]_vars

\* C4: once jasmineDone has resolved the race with passed or failed, a later
\* `disconnect` and a later expiry of the connection deadline with no device
\* connected change neither the race, the main-test result nor the outcome,
\* and no promise of the run is rejected by them.
C4_SettledResultKept ==
    [][(race \in Results /\ (DisconnectStep \/ ExpiryStep)) =>
            UNCHANGED <<race, testsPromise, localResult, mainResult, chainResult,
                        chainPc, outcome, runResult>>]_vars

C4_Witness ==
    /\ testsPromise \in Results
    /\ race = testsPromise
    /\ deadline = "expired"
    /\ ~deviceConnected
    /\ mainResult = race

\* C5: when jasmineDone settled the race, the race and the main-test result
\* that comes from it are passed exactly if specFailed of the payload is 0,
\* and failed for every specFailed > 0.
C5_PassedIffNoSpecFailed ==
    testsPromise \in Results =>
        /\ specFailed \in 0..MaxSpecFailed
        /\ (race = TEST_PASSED <=> specFailed = 0)
        /\ (race = TEST_FAILED <=> specFailed > 0)
        /\ (localResult \in Results => localResult = race)
        /\ (mainResult # "unknown" => mainResult = race)

C5_Witness ==
    /\ testsPromise \in Results
    /\ specFailed = MaxSpecFailed
    /\ mainResult = TEST_FAILED

\* C6: when a device is connected at the connection deadline the watchdog
\* gives no signal: the race is never rejected with the connection-timeout
\* error, and if jasmineDone is never received (and the launch command does
\* not fail) the run can only end by the global timeout.
C6_WatchdogInert ==
    deadline = "inert" =>
        /\ race # ConnectionMsg
        /\ outcome # WrapError(ConnectionMsg)
        /\ runResult # WrapError(ConnectionMsg)
        /\ firstSignal # "NeverConnected"
        /\ (~doneReceived => race = "pending")
        /\ (~doneReceived /\ outcome # "pending" /\ launch # "failed" =>
                outcome = WrapError(TimeoutMsg))

C6_Witness ==
    /\ deadline = "inert"
    /\ ~doneReceived
    /\ cleanPc = "done"
    /\ runResult = WrapError(TimeoutMsg)

\* C7: when the connection deadline expires with no device connected and no
\* jasmineDone received, the race is rejected with the connection-timeout
\* error, and so is the main-test phase if it is still open; from then on
\* the run never ends with a result (it fails), and when it has finished the
\* cleanup stages have run exactly once.
C7_NeverConnectedFails ==
    /\ [][(deadline = "armed" /\ deadline' # "armed" /\ ~deviceConnected /\ ~doneReceived) =>
              /\ race' = ConnectionMsg
              /\ (chainPc = "mainPhase" => localResult' = ConnectionMsg)]_vars
    /\ [](race = ConnectionMsg =>
              /\ outcome \notin Results
              /\ runResult \notin Results
              /\ localResult \in {"pending", ConnectionMsg, LaunchErr}
              /\ (chainResult = ConnectionMsg /\ globalTimer = "cleared" =>
                      outcome = WrapError(ConnectionMsg))
              /\ (cleanPc = "done" => CleanupOnce))
    /\ (race = ConnectionMsg) ~> (cleanPc = "done" /\ runResult \notin Results /\ CleanupOnce)

C7_Witness ==
    /\ race = ConnectionMsg
    /\ deadline = "expired"
    /\ cleanPc = "done"
    /\ runResult = WrapError(ConnectionMsg)

\* C8 (as claimed): the first signal to fire among the connection watchdog,
\* the result listener (jasmineDone, disconnect) and the global timeout
\* determines the outcome of the run; a signal firing later has no effect.
\* Stated for the runs whose outcome was settled by the first signal's own
\* path (by the global timeout when it fired first, by the chain otherwise)
\* and in which the launch command did not fail.
C8_FirstSignalWins ==
    (outcome # "pending" /\ firstSignal # "none") =>
        CASE firstSignal = "TimedOut" -> outcome = WrapError(TimeoutMsg)
          [] globalTimer = "fired" \/ outcome = WrapError(LaunchErr) -> TRUE
          [] firstSignal = "NeverConnected" -> outcome = WrapError(ConnectionMsg)
          [] firstSignal = "Disconnected" -> outcome = WrapError(DisconnectMsg)
          [] OTHER -> outcome \notin {WrapError(ConnectionMsg), WrapError(DisconnectMsg)}

\* C9 (as claimed): in a run with action build no connection timer is armed
\* and no jasmineDone / disconnect listener registered, and, the launch
\* command having been issued and the run settled by its own chain, the
\* result is passed exactly if the launch command exited with code zero.
C9_BuildPassedIffLaunchOk ==
    config.action = "build" =>
        /\ deadline = "unarmed"
        /\ testsPromise = "none"
        /\ (outcome # "pending" /\ launch # "none" /\ globalTimer # "fired" =>
                (outcome = TEST_PASSED <=> launch = "ok"))

\* C10 (as claimed): with action build and a launch command that exited with
\* a non-zero code, the finished run has failed, no log collection, uninstall
\* or emulator termination was attempted, and the temp project was deleted
\* if shouldCleanUpAfterRun is set.
C10_BuildLaunchFailure ==
    (config.action = "build" /\ launch = "failed" /\ cleanPc = "done") =>
        /\ runResult # TEST_PASSED
        /\ Count("collectDeviceLogs") = 0
        /\ Count("uninstallApp") = 0
        /\ Count("killEmulatorProcess") = 0
        /\ (config.shouldCleanUpAfterRun => Count("rm") = 1)

\* The position of the first occurrence of a step in the cleanup log, 0 if
\* the step has not been executed.
Index(step) ==
    IF Count(step) = 0 THEN 0
    ELSE CHOOSE i \in DOMAIN cleanupLog :
            cleanupLog[i] = step /\ \A j \in 1..(i - 1) : cleanupLog[j] # step

Before(a, b) == Index(b) > 0 => (Index(a) > 0 /\ Index(a) < Index(b))

\* The position at which the uninstall attempt settled, either way.
UninstallSettled ==
    IF Index("uninstalled") > 0 THEN Index("uninstalled") ELSE Index("uninstallFailed")

\* C11: when the main-test phase and the Appium phase have both delivered a
\* result, the result of the chain is passed exactly if both are passed, in
\* local and in Sauce runs alike, and it is the result of the run unless the
\* global timeout came first; a skipped Appium phase counts as passed.
C11_ResultIsConjunction ==
    /\ (mainResult \in Results /\ appiumResult \in Results) =>
          /\ chainResult \in Results
          /\ chainResult = TEST_PASSED <=>
                (mainResult = TEST_PASSED /\ appiumResult = TEST_PASSED)
          /\ globalTimer = "cleared" => outcome = chainResult
          /\ (globalTimer = "cleared" /\ cleanPc = "done") => runResult = chainResult
    /\ (mainResult \in Results /\ chainPc = "settled" /\ AppiumDecision = "skip") =>
          /\ appiumResult = TEST_PASSED
          /\ chainResult = mainResult

C11_Witness ==
    /\ config.shouldUseSauce
    /\ mainResult = TEST_PASSED
    /\ appiumResult = TEST_FAILED
    /\ cleanPc = "done"
    /\ runResult = TEST_FAILED

\* C12: in a local run whose action is not build the cleanup steps are
\* executed in the order log collection, uninstall, process termination,
\* project deletion: uninstallApp starts after collectLogs returned,
\* killEmulatorProcess is called after the uninstall attempt settled, and
\* cleanUpProject (and its rm) after killEmulatorProcess (and its kill).
C12_CleanupOrder ==
    (~config.shouldUseSauce /\ config.action # "build") =>
        /\ Before("collectDeviceLogs", "collectLogs")
        /\ Before("collectLogs", "uninstallApp")
        /\ UninstallSettled > 0 => Index("uninstallApp") < UninstallSettled
        /\ Index("killEmulatorProcess") > 0 =>
              (UninstallSettled > 0 /\ UninstallSettled < Index("killEmulatorProcess"))
        /\ Before("killEmulatorProcess", "kill")
        /\ Before("killEmulatorProcess", "rm")
        /\ Before("kill", "rm")
        /\ (Index("uninstallApp") > 0 /\ Index("cleanUpProject") > 0) =>
              (Index("killEmulatorProcess") > 0
               /\ Index("killEmulatorProcess") < Index("cleanUpProject"))
        /\ (cleanPc = "done" /\ Count("collectLogs") = 1) =>
              (Count("uninstallApp") = 1 /\ Count("killEmulatorProcess") = 1
               /\ Count("cleanUpProject") = 1)

C12_Witness ==
    /\ ~config.shouldUseSauce
    /\ config.action = "run"
    /\ cleanPc = "done"
    /\ Count("uninstallFailed") = 1
    /\ Count("kill") = 1
    /\ Count("rm") = 1

\* C13 (as claimed): when collectDeviceLogs throws during cleanup, the
\* finished run still has its own outcome, and uninstallApp and
\* killEmulatorProcess have been attempted.
C13_LogCollectionFailureCaught ==
    (Count("collectDeviceLogs") = 1 /\ Count("collectLogs") = 0 /\ cleanPc = "done") =>
        /\ runResult = outcome
        /\ Count("uninstallApp") = 1
        /\ Count("killEmulatorProcess") = 1

\* C14: a failed uninstall leaves no error behind and the finished run keeps
\* its outcome; killEmulatorProcess is called right after the uninstall
\* attempt settled, fulfilled or rejected; ParamedicKill.kill is called
\* exactly if shouldCleanUpAfterRun is set.
C14_UninstallFailureSwallowed ==
    /\ Count("uninstallFailed") = 1 =>
          /\ finError = "none"
          /\ cleanPc = "done" => runResult = outcome
    /\ UninstallSettled > 0 =>
          /\ Index("killEmulatorProcess") = UninstallSettled + 1
          /\ Count("kill") = 1 <=> config.shouldCleanUpAfterRun
    /\ Count("killEmulatorProcess") = 0 => Count("kill") = 0

C14_Witness ==
    /\ Count("uninstallFailed") = 1
    /\ Count("kill") = 1
    /\ cleanPc = "done"
    /\ runResult = TEST_PASSED

\* C15: cleanUpProject is the last cleanup step and has been called in every
\* finished run that passed checkConfig, also after collectDeviceLogs threw
\* or uninstallApp rejected; run() settles only after it; the temp
\* directory, when one was created, is removed exactly if
\* shouldCleanUpAfterRun is set.
C15_ProjectDeletionLast ==
    /\ (cleanPc = "done" \/ (runResult # "pending" /\ chainPc # "thrown")) =>
          /\ Count("cleanUpProject") = 1
          /\ \A i \in DOMAIN cleanupLog :
                i > Index("cleanUpProject") => cleanupLog[i] \in {"server.cleanUp", "rm"}
    /\ (cleanPc = "done" /\ tempFolder # "null") =>
          /\ Count("rm") = 1 <=> config.shouldCleanUpAfterRun
          /\ tempFolder = "deleted" <=> config.shouldCleanUpAfterRun
    /\ tempFolder = "null" => Count("rm") = 0
    /\ Count("rm") = 1 => cleanupLog[Len(cleanupLog)] = "rm"

C15_Witness ==
    /\ finError = TempFolderTypeError
    /\ cleanPc = "done"
    /\ Count("cleanUpProject") = 1
    /\ cleanupLog[Len(cleanupLog)] = "cleanUpProject"

\* C16: in a Sauce run the first cleanup stage calls displaySauceDetails,
\* once, and neither collectDeviceLogs nor uninstallApp nor
\* killEmulatorProcess is ever called, whatever the action and the outcome.
C16_SauceCleanup ==
    config.shouldUseSauce =>
        /\ Count("collectDeviceLogs") = 0
        /\ Count("collectLogs") = 0
        /\ Count("uninstallApp") = 0
        /\ Count("killEmulatorProcess") = 0
        /\ Count("kill") = 0
        /\ Count("displaySauceDetails") = Count("deviceCleanup")
        /\ cleanPc = "done" => Count("displaySauceDetails") = 1

C16_Witness ==
    /\ config.shouldUseSauce
    /\ config.action = "run"
    /\ cleanPc = "done"
    /\ Count("displaySauceDetails") = 1
    /\ runResult = WrapError(SauceErr)

\* C17: with main tests and Appium tests both disabled run() throws the
\* 'No tests to run' error of checkConfig and nothing else happens: no temp
\* project, no server, no launch command, no timer and no cleanup step.
C17_NoTestsToRun ==
    (~config.runMainTests /\ ~config.runAppiumTests) =>
        /\ chainPc \in {"start", "thrown"}
        /\ chainPc = "thrown" => runResult = NoTestsMsg
        /\ tempFolder = "null"
        /\ server = "undefined"
        /\ launch = "none"
        /\ globalTimer = "unarmed"
        /\ cleanPc = "idle"
        /\ cleanupLog = <<>>

C17_Witness ==
    /\ chainPc = "thrown"
    /\ runResult = NoTestsMsg
    /\ cleanupLog = <<>>

\* C18 (as claimed): when the chain failed in createTempProject or in
\* prepareProjectToRunTests, before the server was started, the finished
\* cleanup has thrown nothing and has attempted neither collectDeviceLogs
\* nor uninstallApp.
C18_EarlyFailureCleanup ==
    (chainResult \in {TempProjectErr, PrepareErr} /\ cleanPc = "done") =>
        /\ finError = "none"
        /\ runResult = outcome
        /\ Count("collectDeviceLogs") = 0
        /\ Count("uninstallApp") = 0

\* The errors of project preparation, server start and the launch command.
SetupErrors == {PrepareErr, ServerErr, LaunchErr}

C19_Safety ==
    /\ chainResult \in SetupErrors =>
          /\ outcome \in {WrapError(chainResult), WrapError(TimeoutMsg)}
          /\ globalTimer = "cleared" => outcome = WrapError(chainResult)
          /\ cleanPc = "done" => runResult = outcome
    /\ (launch = "failed" /\ ~isBrowser) =>
          /\ localResult \notin Results
          /\ chainPc = "settled" => chainResult \notin Results
          /\ runResult \notin Results
    /\ runResult # "pending" => (chainPc = "thrown" \/ cleanPc = "done")

\* C19: a failure of project preparation, of the server start or of the
\* launch command on a platform other than browser rejects the chain; the
\* run then ends with that error wrapped (or with the timeout error if the
\* global timeout came first), never with a result, and run() settles only
\* when cleanUpProject has run.
C19_SetupErrorReported ==
    /\ []C19_Safety
    /\ (chainResult \in SetupErrors) ~>
          (cleanPc = "done" /\ runResult \notin Results \cup {"pending"})

C19_Witness ==
    /\ config.platform = ANDROID
    /\ launch = "failed"
    /\ chainResult = LaunchErr
    /\ cleanPc = "done"
    /\ runResult = WrapError(LaunchErr)

\* All the values of this.targetObj read so far.
AllTargetReads == UNION {targetReads[reader] : reader \in TargetReaders}

C20_ReadsSafety ==
    /\ targetWrites <= 1
    /\ targetObj = "chosen" <=> targetWrites = 1
    /\ \A reader \in TargetReaders : Cardinality(targetReads[reader]) <= 1
    /\ targetReads["logs"] = targetReads["uninstall"]
    /\ ~config.shouldUseSauce => targetReads["appium"] \subseteq {"chosen"}
    /\ Cardinality(AllTargetReads) = 2 =>
          /\ globalTimer = "fired"
          /\ targetReads["logs"] = {"undefined"}
          /\ targetReads["appium"] = {"chosen"}

C21_NoStepAfterSettle ==
    [][cleanPc # "idle" =>
          /\ server' = "started" => server = "started"
          /\ targetWrites' = targetWrites
          /\ launch' = "running" => launch = "running"
          /\ chainPc' = "appiumRunning" => chainPc = "appiumRunning"]_vars

\* C22 (as claimed): in a local run with Appium tests enabled, platform ios
\* or android and an action other than build, the Appium phase starts after
\* the main-test phase has delivered its result and never fails with
\* 'Cannot determine local device name for Appium'.
C22_AppiumFindsTarget ==
    (~config.shouldUseSauce /\ config.runAppiumTests /\ config.platform \in {IOS, ANDROID}
     /\ config.action # "build") =>
        /\ chainPc \in {"appium", "appiumRunning"} => mainResult \in Results
        /\ chainResult # NoDeviceNameMsg

\* C23 (as claimed): the server is started at most once, and when the
\* cleanup has finished no started server is left that was not torn down,
\* whichever signal settled the run.
C23_ServerTornDown ==
    /\ Count("server.cleanUp") <= 1
    /\ cleanPc = "done" => server # "started"

\* C30 (as claimed): the server is started exactly if main tests are
\* enabled, and with main tests disabled no step of the run fails on the
\* server that is not there.
C30_ServerIffMainTests ==
    /\ server # "undefined" => config.runMainTests
    /\ (config.runMainTests /\ chainPc \notin {"start", "createProject", "prepare", "startServer"}
        /\ chainResult \notin {TempProjectErr, PrepareErr, ServerErr}) => server # "undefined"
    /\ ~config.runMainTests =>
          /\ chainResult # ServerTypeError
          /\ Count("server.cleanUp") = 0

(***************************************************************************)
(* wdHelper.pollForEvents                                                  *)
(***************************************************************************)
MaxWindows == 2
MaxEvents == 2
MaxPolls == 2
MaxRetries == 2

\* The default of the argument retries, wdHelper.js line 199.
DefaultRetries == 2

NoWindowMsg == "Cannot find a window with the event cache."
NoCachePrefix == "Cannot get the event cache: it doesn't exist in the app. Got this instead: "

\* The JavaScript values that travel between the page and the poller.
JsNull == [type |-> "null"]
JsString(text) == [type |-> "string", text |-> text]
JsArray(items) == [type |-> "array", items |-> items]

\* The events are numbered in the order the app appends them.
Events == 1..MaxEvents

RECURSIVE JoinItems(_)
JoinItems(items) ==
    IF items = <<>> THEN <<>>
    ELSE IF Len(items) = 1 THEN <<ToString(items[1])>>
    ELSE <<ToString(items[1]), ",">> \o JoinItems(Tail(items))

\* JSON.stringify of an array, as a sequence of tokens.
Stringify(items) == JsString(<<"[">> \o JoinItems(items) \o <<"]">>)

RECURSIVE ParseItems(_)
ParseItems(tokens) ==
    IF tokens = <<>> THEN <<>>
    ELSE IF Head(tokens) = "," THEN ParseItems(Tail(tokens))
    ELSE <<CHOOSE n \in Events : ToString(n) = Head(tokens)>>
         \o ParseItems(Tail(tokens))

\* JSON.parse of the text of an array.
Parse(value) == JsArray(ParseItems(SubSeq(value.text, 2, Len(value.text) - 1)))

\* if (result): null and the empty string are falsy.
Truthy(value) ==
    CASE value.type = "null" -> FALSE
      [] value.type = "string" -> value.text # <<>>
      [] OTHER -> TRUE

\* The script of .execute, lines 224-232, run in the page of the focused
\* window: null if the page has no cache, else the text of the cache.
ReadScript(present, contents) == IF present THEN Stringify(contents) ELSE JsNull

\* Lines 234-236.
Decode(result) == IF Truthy(result) THEN Parse(result) ELSE result

\* Mutant: an empty array does not count as found.
IsNonEmptyArray(value) == value.type = "array" /\ value.items # <<>>

\* Object.prototype.toString.call(result) === '[object Array]', line 238.
IsArray(value) == value.type = "array"

\* 'Cannot get the event cache ... Got this instead: ' + result, line 249.
NoCacheMsg(value) ==
    NoCachePrefix \o (IF value.type = "null" THEN "null"
                      ELSE IF value.type = "string" THEN "string" ELSE "array")

\* Arguments that may be left out are a sequence of length 0 or 1.
DefaultRetriesOf(arg) == IF arg = <<>> THEN DefaultRetries ELSE arg[1]

DefaultOffsetOf(arg) == IF arg = <<>> THEN 0 ELSE arg[1]

\* Mutant: the offset is not checked against the handles.
OffsetNotChecked(offset, handles) == FALSE

\* Mutant: an offset equal to the number of handles is accepted.
OffsetBeyondHandles(offset, handles) == offset > Len(handles)

\* windowOffset >= windowHandles.length, line 217.
OffsetOutOfRange(offset, handles) == offset >= Len(handles)

\* Mutant: a reload is made with no retries left.
RetriesNotNegative(left) == left >= 0

\* retries > 0, line 241.
RetriesRemain(left) == left > 0

\* Mutant: every platform other than the browser tries the next window.
NotBrowser(id) == id # BROWSER

\* isAndroid: the negation of the test of line 248.
TriesNextWindow(id) == id = ANDROID

\* The page of the focused window holds the cache.
CachePresent == cacheWindow # 0 /\ cacheWindow = focus

PollFinished == pollPc \in {"returned", "failed"}

\* A call of pollForEvents by the test: the arguments are defaulted (lines
\* 199-200) and driver.sleep(0) is issued.
pollForEvents ==
    /\ pollPc \in {"idle", "returned", "failed"}
    /\ polls < MaxPolls
    /\ polls' = polls + 1
    /\ \E offsetArg \in {<<>>} \cup {<<o>> : o \in 0..MaxWindows},
          retriesArg \in {<<>>} \cup {<<r>> : r \in 0..MaxRetries} :
          /\ windowOffset' = DefaultOffsetOf(offsetArg)
          /\ firstOffset' = DefaultOffsetOf(offsetArg)
          /\ retries' = DefaultRetriesOf(retriesArg)
          /\ budget' = DefaultRetriesOf(retriesArg)
    /\ pollPc' = "bustAlert"
    /\ batch' = <<>>
    /\ pollError' = "none"
    /\ reads' = 0
    /\ absentReads' = 0
    /\ reloads' = 0
    /\ UNCHANGED <<runVars, wdVars, platform, skipBuster, windowHandles, focus, cacheWindow, cache,
                   appended, delivered>>

\* Lines 205-208: driver.bustAlert unless skipBuster. bustAlert acts on the
\* context of the session only, which pollForEvents does not read.
pollBustAlert ==
    /\ pollPc = "bustAlert"
    /\ pollPc' = "window"
    /\ UNCHANGED <<runVars, wdVars, platform, skipBuster, windowOffset, retries, windowHandles, focus,
                   cacheWindow, cache, appended, delivered, batch, pollError, polls,
                   firstOffset, budget, reads, absentReads, reloads>>

\* Lines 209-223: on iOS and the browser nothing; otherwise the session is
\* switched to windowHandles[windowOffset], or the call fails if there is
\* no such handle.
pollSwitchWindow ==
    /\ pollPc = "window"
    /\ IF platform \in {IOS, BROWSER}
       THEN /\ pollPc' = "execute"
            /\ UNCHANGED <<focus, pollError>>
       ELSE IF OffsetOutOfRange(windowOffset, windowHandles)
       THEN /\ pollPc' = "failed"
            /\ pollError' = NoWindowMsg
            /\ UNCHANGED focus
       ELSE /\ pollPc' = "execute"
            /\ focus' = windowOffset + 1
            /\ UNCHANGED pollError
    /\ UNCHANGED <<runVars, wdVars, platform, skipBuster, windowOffset, retries, windowHandles,
                   cacheWindow, cache, appended, delivered, batch, polls,
                   firstOffset, budget, reads, absentReads, reloads>>

\* Lines 224-254: the script reads and empties the cache in one piece, and
\* the handler returns the array, asks for a reload, fails, or calls
\* pollForEvents for the next window (with retries left out).
pollExecute ==
    /\ pollPc = "execute"
    /\ reads' = reads + 1
    /\ cache' = IF CachePresent THEN <<>> ELSE cache
    /\ LET result == Decode(ReadScript(CachePresent, cache))
       IN IF IsArray(result)
          THEN /\ pollPc' = "returned"
               /\ batch' = result.items
               /\ delivered' = delivered \o result.items
               /\ UNCHANGED <<pollError, windowOffset, retries, absentReads>>
          ELSE /\ absentReads' = absentReads + 1
               /\ UNCHANGED <<batch, delivered>>
               /\ IF platform = BROWSER /\ RetriesRemain(retries)
                  THEN /\ pollPc' = "reload"
                       /\ UNCHANGED <<pollError, windowOffset, retries>>
                  ELSE IF ~TriesNextWindow(platform)
                  THEN /\ pollPc' = "failed"
                       /\ pollError' = NoCacheMsg(result)
                       /\ UNCHANGED <<windowOffset, retries>>
                  ELSE /\ pollPc' = "bustAlert"
                       /\ windowOffset' = DefaultOffsetOf(<<windowOffset + 1>>)
                       /\ retries' = DefaultRetriesOf(<<>>)
                       /\ UNCHANGED pollError
    /\ UNCHANGED <<runVars, wdVars, platform, skipBuster, windowHandles, focus, cacheWindow,
                   appended, polls, firstOffset, budget, reloads>>

\* Lines 243-246: driver.get has loaded the test page anew, which discards
\* the page of the focused window and what it held; pollForEvents is called
\* with retries - 1 and the same windowOffset.
pollReload ==
    /\ pollPc = "reload"
    /\ reloads' = reloads + 1
    /\ cacheWindow' = IF CachePresent THEN 0 ELSE cacheWindow
    /\ cache' = IF CachePresent THEN <<>> ELSE cache
    /\ retries' = DefaultRetriesOf(<<retries - 1>>)
    /\ windowOffset' = DefaultOffsetOf(<<windowOffset>>)
    /\ pollPc' = "bustAlert"
    /\ UNCHANGED <<runVars, wdVars, platform, skipBuster, windowHandles, focus, appended, delivered,
                   batch, pollError, polls, firstOffset, budget, reads, absentReads>>

\* The app: the page of one window finishes loading and creates the cache.
createCache ==
    /\ cacheWindow = 0
    /\ cacheWindow' \in 1..Len(windowHandles)
    /\ cache' = <<>>
    /\ UNCHANGED <<runVars, wdVars, pollPc, platform, skipBuster, windowOffset, retries, windowHandles,
                   focus, appended, delivered, batch, pollError, polls, firstOffset, budget,
                   reads, absentReads, reloads>>

\* The app appends an event to the cache.
appendEvent ==
    /\ cacheWindow # 0
    /\ appended < MaxEvents
    /\ appended' = appended + 1
    /\ cache' = Append(cache, appended + 1)
    /\ UNCHANGED <<runVars, wdVars, pollPc, platform, skipBuster, windowOffset, retries, windowHandles,
                   focus, cacheWindow, delivered, batch, pollError, polls, firstOffset, budget,
                   reads, absentReads, reloads>>

\* A session with some windows open, one of them focused, and a page that
\* may or may not hold the cache yet; the runner is not involved.
PollInit ==
    /\ config = [platform |-> ANDROID, action |-> "run", runMainTests |-> TRUE,
                 runAppiumTests |-> TRUE, shouldUseSauce |-> FALSE,
                 shouldCleanUpAfterRun |-> TRUE, fileTransfer |-> FALSE, phoneArgs |-> FALSE]
    /\ RunnerInit
    /\ pollPc = "idle"
    /\ platform \in Platforms
    /\ skipBuster \in BOOLEAN
    /\ windowOffset = 0
    /\ retries = 0
    /\ \E n \in 1..MaxWindows : windowHandles = [i \in 1..n |-> i]
    /\ focus \in 1..Len(windowHandles)
    /\ cacheWindow \in 0..Len(windowHandles)
    /\ cache = <<>>
    /\ appended = 0
    /\ delivered = <<>>
    /\ batch = <<>>
    /\ pollError = "none"
    /\ polls = 0
    /\ firstOffset = 0
    /\ budget = 0
    /\ reads = 0
    /\ absentReads = 0
    /\ reloads = 0
    /\ WdIdle

PollNext ==
    \/ pollForEvents
    \/ pollBustAlert
    \/ pollSwitchWindow
    \/ pollExecute
    \/ pollReload
    \/ createCache
    \/ appendEvent

PollSpec == PollInit /\ [][PollNext]_vars

\* The driver answers every command, so a poll in progress goes on.
PollFairSpec ==
    PollSpec /\ WF_vars(pollBustAlert) /\ WF_vars(pollSwitchWindow)
             /\ WF_vars(pollExecute) /\ WF_vars(pollReload)

\* The step that runs the read script, and such a step that finds no cache.
ReadStep == pollPc = "execute" /\ reads' = reads + 1

AbsentReadStep == ReadStep /\ ~CachePresent

\* The events appended so far, in the order of appending.
AppendedEvents == [i \in 1..appended |-> i]

LargerOf(a, b) == IF a >= b THEN a ELSE b

\* C24: a read that finds the cache, empty or not, makes pollForEvents
\* return just the contents read, with no error, no reload and the window
\* offset as it was; a returned batch and the 'Cannot find a window with the
\* event cache' failure are different outcomes.
C24_ArrayReturnedAsIs ==
    /\ [][(ReadStep /\ CachePresent) =>
            /\ pollPc' = "returned"
            /\ batch' = cache
            /\ pollError' = "none"
            /\ reloads' = reloads
            /\ windowOffset' = windowOffset]_vars
    /\ [](pollPc = "returned" => pollError = "none")
    /\ [](pollError = NoWindowMsg => (pollPc = "failed" /\ batch = <<>> /\ platform # BROWSER))

C24_Witness ==
    /\ platform = ANDROID
    /\ pollPc = "returned"
    /\ reads = 1
    /\ batch = <<>>
    /\ pollError = "none"

\* C25: on Android the poller switches to windowHandles[windowOffset] before
\* it reads; with windowOffset equal to or beyond the number of handles it
\* fails with 'Cannot find a window with the event cache.' and neither
\* reads nor empties a cache.
C25_WindowOffsetChecked ==
    /\ [][(platform = ANDROID /\ pollPc = "window" /\ pollPc' # "window") =>
            IF windowOffset >= Len(windowHandles)
            THEN /\ pollPc' = "failed"
                 /\ pollError' = NoWindowMsg
                 /\ reads' = reads
                 /\ cache' = cache
            ELSE /\ pollPc' = "execute"
                 /\ focus' = windowHandles[windowOffset + 1]]_vars
    /\ []((platform = ANDROID /\ pollPc = "execute") =>
            (windowOffset < Len(windowHandles) /\ focus = windowHandles[windowOffset + 1]))

C25_Witness ==
    /\ platform = ANDROID
    /\ pollPc = "failed"
    /\ pollError = NoWindowMsg
    /\ windowOffset = Len(windowHandles)
    /\ reads = 0
    /\ cache # <<>>

C26_BrowserBudget ==
    (platform = BROWSER /\ polls > 0) =>
        /\ reloads <= budget
        /\ reads <= budget + 1
        /\ retries = budget - reloads
        /\ windowOffset = firstOffset
        /\ pollPc = "reload" => retries > 0
        /\ pollPc = "failed" =>
              /\ pollError = NoCacheMsg(JsNull)
              /\ absentReads = reads
              /\ reloads = budget
              /\ reads = budget + 1

\* C26: on the browser, an absent read with retries left reloads the page
\* and polls again with one retry less and the same window offset; when
\* every read is absent the page is reloaded as often as the retry budget
\* says and the poll then fails with 'Cannot get the event cache ... null',
\* after at most budget + 1 reads.
C26_BrowserRetries ==
    /\ []C26_BrowserBudget
    /\ [][(AbsentReadStep /\ platform = BROWSER /\ retries > 0) => pollPc' = "reload"]_vars
    /\ [][pollPc = "reload" /\ pollPc' # "reload" =>
            (retries' = retries - 1 /\ windowOffset' = windowOffset
             /\ reloads' = reloads + 1)]_vars

C26_Witness ==
    /\ platform = BROWSER
    /\ pollPc = "failed"
    /\ budget = DefaultRetries
    /\ reloads = DefaultRetries
    /\ reads = DefaultRetries + 1

\* C27 (as claimed): on iOS as on Android an absent read does not fail the
\* poll but starts a poll with windowOffset + 1.
C27_NextWindowOnAbsent ==
    [][(AbsentReadStep /\ platform \in {IOS, ANDROID}) =>
          (pollPc' # "failed" /\ windowOffset' = windowOffset + 1)]_vars

\* C27 (amended): on Android an absent read does not fail the poll but
\* starts a poll with windowOffset + 1; on the other platforms that are not
\* the browser (iOS, Windows) it fails the poll with 'Cannot get the event
\* cache ...'.
C27_NextWindowOnAndroid ==
    [][(AbsentReadStep /\ platform # BROWSER) =>
          IF platform = ANDROID
          THEN /\ pollPc' = "bustAlert"
               /\ pollError' = "none"
               /\ windowOffset' = windowOffset + 1
          ELSE /\ pollPc' = "failed"
               /\ pollError' = NoCacheMsg(JsNull)
               /\ windowOffset' = windowOffset]_vars

C27_Witness ==
    /\ platform = IOS
    /\ pollPc = "failed"
    /\ absentReads = 1
    /\ pollError = NoCacheMsg(JsNull)

\* C28 (as claimed): on Android, a platform other than the browser, a poll
\* whose reads all come back absent never finishes, neither with a batch nor
\* with an error.
C28_NeverTerminates ==
    (platform = ANDROID /\ reads > 0 /\ absentReads = reads) => ~PollFinished

C28_Bounded ==
    /\ windowOffset <= LargerOf(firstOffset, Len(windowHandles))
    /\ (platform = ANDROID /\ pollPc = "failed") =>
          /\ pollError = NoWindowMsg
          /\ absentReads = reads
          /\ windowOffset >= Len(windowHandles)
          /\ firstOffset <= Len(windowHandles) =>
                (windowOffset = Len(windowHandles)
                 /\ reads = Len(windowHandles) - firstOffset)
    /\ (platform \notin {ANDROID, BROWSER} /\ pollPc = "failed" /\ reads > 0) => reads = 1

\* C28 (amended): with a fixed set of open windows every pollForEvents call
\* ends. On Android a poll whose reads all come back absent reads each
\* window from its first offset on once and then fails with 'Cannot find a
\* window with the event cache.': windowOffset never passes the number of
\* handles. On the other platforms that are not the browser the poll fails
\* at the first absent read.
C28_PollTerminates ==
    /\ []C28_Bounded
    /\ (pollPc = "bustAlert") ~> PollFinished

C28_Witness ==
    /\ platform = ANDROID
    /\ pollPc = "failed"
    /\ pollError = NoWindowMsg
    /\ firstOffset = 0
    /\ Len(windowHandles) > 1
    /\ reads = Len(windowHandles)

\* C29 (as claimed): every event the app appended is either still in the
\* cache or was returned by one poll, once, in the order of appending.
C29_EveryEventDeliveredOnce ==
    delivered \o cache = AppendedEvents

(***************************************************************************)
(* appium/helpers/wdHelper.js: getWebviewContext and bustAlert;            *)
(* appium-tests/common/common.spec.js: the connect step                     *)
(***************************************************************************)
\* Largest number of contexts a session lists.
MaxContexts == 2

\* retries = 2 of wdHelper.js line 115.
WebviewDefaultRetries == 2

\* The second argument of getWebviewContext in getDriver, common.spec.js
\* line 31.
ConnectRetries == 2

\* The getDriver() calls of the connect step: line 60 and the two nested
\* .fail handlers of lines 62 and 64.
ConnectAttempts == 3

NoWebviewMsg == "Couldn't get webview context."
WdDriverErr == "the automation driver failed"

ContextLists == UNION {[1..n -> ContextNames] : n \in 0..MaxContexts}

\* String.prototype.indexOf over the parts of a name, zero-based.
RECURSIVE IndexFrom(_, _, _)
IndexFrom(name, part, i) ==
    IF i > Len(name) THEN -1
    ELSE IF name[i] = part THEN i - 1
    ELSE IndexFrom(name, part, i + 1)

IndexOf(name, part) == IndexFrom(name, part, 1)

\* Array.prototype.reverse, line 120.
Reverse(list) == [i \in 1..Len(list) |-> list[Len(list) + 1 - i]]

\* The loop of lines 121-125 over the reversed list: the first element
\* whose name contains 'WEBVIEW', <<>> when the loop ends without one.
RECURSIVE FirstWebviewFrom(_, _)
FirstWebviewFrom(list, i) ==
    IF i > Len(list) THEN <<>>
    ELSE IF IndexOf(list[i], "WEBVIEW") >= 0 THEN <<list[i]>>
    ELSE FirstWebviewFrom(list, i + 1)

\* Mutant: the list is searched in the order the driver gave it.
FindWebviewUnreversed(contexts) == FirstWebviewFrom(contexts, 1)

\* Lines 120-125.
FindWebview(contexts) == FirstWebviewFrom(Reverse(contexts), 1)

\* Lines 114-116: typeof retries === 'undefined'.
WebviewRetriesOf(arg) == IF arg = <<>> THEN WebviewDefaultRetries ELSE arg[1]

\* The entry of getWebviewContext, lines 113-118: the retries are defaulted
\* and the first query follows.
EnterWebview(arg) ==
    [pc |-> "query", arg |-> arg, retries |-> WebviewRetriesOf(arg), contexts |-> <<>>,
     queries |-> 0, result |-> "none"]

WdAllIdle == wv.pc = "idle" /\ conn.pc = "idle" /\ ba.pc = "idle"

\* wdHelper.getWebviewContext(driver, retries) called on its own.
getWebviewContext ==
    /\ WdAllIdle
    /\ \E arg \in {<<>>} \cup {<<r>> : r \in 0..MaxRetries} : wv' = EnterWebview(arg)
    /\ UNCHANGED <<runVars, pollVars, conn, ba>>

\* driver.sleep(WEBVIEW_WAIT_TIMEOUT).contexts() and its continuation,
\* lines 118-126: the driver fails, or the list is searched.
webviewQuery ==
    /\ wv.pc = "query"
    /\ \/ wv' = [wv EXCEPT !.queries = @ + 1, !.pc = "failed", !.result = WdDriverErr]
       \/ \E contexts \in ContextLists :
            IF FindWebview(contexts) # <<>>
            THEN wv' = [wv EXCEPT !.queries = @ + 1, !.contexts = contexts,
                                  !.pc = "returned", !.result = FindWebview(contexts)[1]]
            ELSE wv' = [wv EXCEPT !.queries = @ + 1, !.contexts = contexts, !.pc = "sleep"]
    /\ UNCHANGED <<runVars, pollVars, conn, ba>>

\* The continuation of driver.sleep(1000), lines 127-135: the call is
\* repeated with one retry less, or the failure is thrown.
webviewRetry ==
    /\ wv.pc = "sleep"
    /\ IF wv.retries > 0
       THEN wv' = [wv EXCEPT !.pc = "query", !.retries = @ - 1]
       ELSE wv' = [wv EXCEPT !.pc = "failed", !.result = NoWebviewMsg]
    /\ UNCHANGED <<runVars, pollVars, conn, ba>>

\* The connect step starts: the first getDriver() of line 60.
connect ==
    /\ WdAllIdle
    /\ \E t \in BOOLEAN :
         conn' = [pc |-> "init", attempts |-> 1, failedToStart |-> conn.failedToStart,
                  sessionCreated |-> FALSE, failCalls |-> 0, throwOnFail |-> t,
                  webviewContext |-> <<>>]
    /\ UNCHANGED <<runVars, pollVars, wv, ba>>

\* wdHelper.getDriver, lines 96-106: the session is initialised or the
\* error is thrown on; getDriver of common.spec.js goes on with
\* getWebviewContext(driver, 2), which fails on a driver that failed.
driverInit ==
    /\ conn.pc = "init"
    /\ \/ conn' = [conn EXCEPT !.pc = "webview"] /\ wv' = EnterWebview(<<ConnectRetries>>)
       \/ conn' = [conn EXCEPT !.pc = "rejected"] /\ UNCHANGED wv
    /\ UNCHANGED <<runVars, pollVars, ba>>

\* getDriver lines 32-35: the context found is kept and switched to; a
\* failure of getWebviewContext fails getDriver.
webviewFound ==
    /\ conn.pc = "webview"
    /\ wv.pc \in {"returned", "failed"}
    /\ IF wv.pc = "returned"
       THEN conn' = [conn EXCEPT !.pc = "setup", !.webviewContext = <<wv.result>>]
       ELSE conn' = [conn EXCEPT !.pc = "rejected"]
    /\ wv' = [pc |-> "idle"]
    /\ UNCHANGED <<runVars, pollVars, ba>>

\* getDriver lines 34-41: driver.context, waitForDeviceReady and
\* injectLibraries; each of them may fail.
sessionSetup ==
    /\ conn.pc = "setup"
    /\ \/ conn' = [conn EXCEPT !.pc = "resolved", !.sessionCreated = TRUE]
       \/ conn' = [conn EXCEPT !.pc = "rejected"]
    /\ UNCHANGED <<runVars, pollVars, wv, ba>>

\* jasmine's fail used as a handler (lines 65 and 70): the failure is
\* recorded; the handler throws only when jasmine is configured to throw on
\* a failed expectation, otherwise it returns undefined.
JasmineFail == IF conn.throwOnFail THEN "rejected" ELSE "resolved"

\* The .fail handlers of lines 61-67 and the rejection handler of line 70:
\* after the first and the second getDriver() the next one is called; after
\* the third, fail is.
getDriverFailed ==
    /\ conn.pc = "rejected"
    /\ IF conn.attempts < ConnectAttempts
       THEN conn' = [conn EXCEPT !.attempts = @ + 1, !.pc = "init"]
       ELSE IF JasmineFail = "resolved"
            THEN conn' = [conn EXCEPT !.pc = "resolved", !.failCalls = @ + 1]
            ELSE conn' = [conn EXCEPT !.pc = "failed", !.failCalls = @ + 2]
    /\ UNCHANGED <<runVars, pollVars, wv, ba>>

\* The fulfilment handler of lines 68-70.
sessionStarted ==
    /\ conn.pc = "resolved"
    /\ conn' = [conn EXCEPT !.failedToStart = FALSE, !.pc = "connected"]
    /\ UNCHANGED <<runVars, pollVars, wv, ba>>

\* wdHelper.bustAlert(driver, platform) is called on a session that is in
\* some context, with or without an alert on the screen.
bustAlert ==
    /\ WdAllIdle
    /\ \E platformArg \in {IOS, ANDROID}, context \in ContextNames,
          shown \in {"none", "present"} :
         ba' = [pc |-> "current", platform |-> platformArg, sessionContext |-> context,
                startContext |-> context, previousContext |-> <<>>, alert |-> shown,
                error |-> "none"]
    /\ UNCHANGED <<runVars, pollVars, wv, conn>>

\* Mutant: the context is never kept.
ContextForgotten(context) == FALSE

\* Line 262.
KeepsContext(context) == context # NATIVE_APP

\* driver.currentContext() and lines 261-266.
alertCurrentContext ==
    /\ ba.pc = "current"
    /\ \/ ba' = [ba EXCEPT !.pc = "native",
                           !.previousContext = IF KeepsContext(ba.sessionContext)
                                               THEN <<ba.sessionContext>> ELSE @]
       \/ ba' = [ba EXCEPT !.pc = "failed", !.error = WdDriverErr]
    /\ UNCHANGED <<runVars, pollVars, wv, conn>>

\* .context('NATIVE_APP'), line 267.
alertNativeContext ==
    /\ ba.pc = "native"
    /\ \/ ba' = [ba EXCEPT !.pc = "alert", !.sessionContext = NATIVE_APP]
       \/ ba' = [ba EXCEPT !.pc = "failed", !.error = WdDriverErr]
    /\ UNCHANGED <<runVars, pollVars, wv, conn>>

\* Lines 268-278: acceptAlert on iOS, a click on the ALLOW button otherwise;
\* the command succeeds only on an alert, and both handlers of line 271 and
\* the .fail of line 278 return undefined.
alertDismiss ==
    /\ ba.pc = "alert"
    /\ \/ ba.alert = "present" /\ ba' = [ba EXCEPT !.pc = "restore", !.alert = "dismissed"]
       \/ ba' = [ba EXCEPT !.pc = "restore"]
    /\ UNCHANGED <<runVars, pollVars, wv, conn>>

\* Lines 280-284: the session goes back to the context kept, if any.
alertRestoreContext ==
    /\ ba.pc = "restore"
    /\ IF ba.previousContext # <<>>
       THEN \/ ba' = [ba EXCEPT !.pc = "done", !.sessionContext = ba.previousContext[1]]
            \/ ba' = [ba EXCEPT !.pc = "failed", !.error = WdDriverErr]
       ELSE ba' = [ba EXCEPT !.pc = "done"]
    /\ UNCHANGED <<runVars, pollVars, wv, conn>>

WdInit ==
    /\ config = [platform |-> ANDROID, action |-> "run", runMainTests |-> TRUE,
                 runAppiumTests |-> TRUE, shouldUseSauce |-> FALSE,
                 shouldCleanUpAfterRun |-> TRUE, fileTransfer |-> FALSE, phoneArgs |-> FALSE]
    /\ RunnerInit
    /\ PollerIdle
    /\ WdIdle

WdNext ==
    \/ getWebviewContext
    \/ webviewQuery
    \/ webviewRetry
    \/ connect
    \/ driverInit
    \/ webviewFound
    \/ sessionSetup
    \/ getDriverFailed
    \/ sessionStarted
    \/ bustAlert
    \/ alertCurrentContext
    \/ alertNativeContext
    \/ alertDismiss
    \/ alertRestoreContext

WdSpec == WdInit /\ [][WdNext]_vars

\* The main-test phase of a local run on a platform other than the browser,
\* with main tests enabled and a test result to wait for.
WaitsForLaunchAndRace ==
    /\ ~config.shouldUseSauce
    /\ ~isBrowser
    /\ config.runMainTests
    /\ config.action # "build"

C31_Safety ==
    WaitsForLaunchAndRace =>
        /\ launch # "none" => (deadline # "unarmed" /\ testsPromise # "none" /\ race # "none")
        /\ launch = "none" => (deadline = "unarmed" /\ testsPromise = "none")
        /\ localResult \in Results => (launch = "ok" /\ race = localResult)
        /\ mainResult \in Results => (launch = "ok" /\ race = mainResult)
        /\ launch = "failed" => (localResult \notin Results \cup {"pending"}
                                /\ mainResult \notin Results)

\* C31: on a platform other than the browser, with main tests enabled and
\* action run or emulate, the connection timers and the result listeners
\* are set in the step that issues the launch command; the phase has a
\* result only when the command has exited with success and the race has
\* resolved with that result; a failed command fails the phase, also after
\* a passing jasmineDone.
C31_LaunchAndRace ==
    /\ []C31_Safety
    /\ [][(WaitsForLaunchAndRace /\ launch = "none" /\ launch' # "none") =>
            (launch' = "running" /\ deadline' = "armed" /\ testsPromise' = "pending"
             /\ race' = "pending")]_vars

C31_Witness ==
    /\ WaitsForLaunchAndRace
    /\ launch = "failed"
    /\ race = TEST_PASSED
    /\ localResult = LaunchErr
    /\ chainResult = LaunchErr

\* C32: in a local run with main tests skipped, on every platform but
\* Android the main-test phase reports passed and neither chooses a target
\* nor issues the launch command; on Android the command is issued and
\* waited for, no connection timer is set and no result listener
\* registered, and the phase reports passed once the command has exited
\* with success.
C32_SkippedMainTests ==
    (~config.shouldUseSauce /\ ~config.runMainTests) =>
        /\ deadline = "unarmed"
        /\ testsPromise = "none"
        /\ race \in {"none", TEST_PASSED}
        /\ mainResult \in {"unknown", TEST_PASSED}
        /\ config.platform # ANDROID =>
              /\ launch = "none"
              /\ targetWrites = 0
              /\ chainPc \in {"appium", "appiumRunning"} => mainResult = TEST_PASSED
        /\ config.platform = ANDROID =>
              /\ mainResult = TEST_PASSED => launch = "ok"
              /\ chainPc \in {"appium", "appiumRunning"} => mainResult = TEST_PASSED

C32_Witness ==
    /\ ~config.shouldUseSauce
    /\ ~config.runMainTests
    /\ config.platform = ANDROID
    /\ launch = "ok"
    /\ mainResult = TEST_PASSED
    /\ deadline = "unarmed"

C33_Safety ==
    (~config.shouldUseSauce /\ isBrowser) =>
        /\ launch = "killed" => chainPc \notin {"launch", "mainPhase", "localFin", "killing"}
        /\ chainPc = "killing" => (localResult # "pending" /\ mainResult = "unknown"
                                   /\ chainResult = "pending")
        /\ (mainResult \in Results \/ (localResult # "pending" /\ chainResult = localResult))
              => launch # "running"
        /\ (mainResult \in Results /\ config.runMainTests) => mainResult = localResult

\* C33: on the browser the launch command is not waited for; when the
\* main-test phase has settled and the spawned process is still running,
\* the process is killed and the settled outcome, a result or an error, goes
\* on unchanged only when the kill has called back; a process that has
\* exited is not killed.
C33_BrowserProcessKilled ==
    /\ []C33_Safety
    /\ [][(~config.shouldUseSauce /\ isBrowser /\ chainPc = "localFin"
           /\ chainPc' # "localFin") =>
            IF launch = "running"
            THEN chainPc' = "killing" /\ launch' = "running" /\ mainResult' = mainResult
            ELSE chainPc' # "killing" /\ launch' = launch]_vars
    /\ [][(chainPc = "killing" /\ chainPc' # "killing") =>
            /\ launch' # "running"
            /\ localResult' = localResult
            /\ IF localResult \in Results
               THEN mainResult' = localResult /\ chainPc' = "appium"
               ELSE chainResult' = localResult /\ chainPc' = "settled"]_vars

C33_Witness ==
    /\ ~config.shouldUseSauce
    /\ isBrowser
    /\ launch = "killed"
    /\ localResult = ConnectionMsg
    /\ chainResult = ConnectionMsg

\* The number of queries a call with the argument wv.arg may make.
WebviewBudget == IF wv.arg = <<>> THEN 2 + 1 ELSE wv.arg[1] + 1

ContainsWebview(name) == \E k \in DOMAIN name : name[k] = "WEBVIEW"

WebviewPositions(list) == {i \in DOMAIN list : ContainsWebview(list[i])}

LastWebview(list) ==
    list[CHOOSE i \in WebviewPositions(list) : \A j \in WebviewPositions(list) : j <= i]

C34_Safety ==
    wv.pc # "idle" =>
        /\ wv.queries <= WebviewBudget
        /\ wv.result = NoWebviewMsg =>
              (wv.queries = WebviewBudget /\ WebviewPositions(wv.contexts) = {})
        /\ wv.pc = "returned" =>
              (WebviewPositions(wv.contexts) # {} /\ wv.result = LastWebview(wv.contexts))
        /\ wv.pc = "sleep" => WebviewPositions(wv.contexts) = {}

\* C34: getWebviewContext(driver, r) sends at most r + 1 context queries,
\* three when r is not given; the first answer that lists a context whose
\* name contains 'WEBVIEW' ends the call with the last such context of that
\* answer; the call fails with 'Couldn't get webview context.' exactly when
\* r + 1 queries were answered and none of the answers listed one.
C34_WebviewContext ==
    /\ []C34_Safety
    /\ [][(wv.pc = "query" /\ wv'.pc \notin {"query", "failed"}) =>
            IF WebviewPositions(wv'.contexts) # {}
            THEN wv'.pc = "returned" /\ wv'.result = LastWebview(wv'.contexts)
            ELSE wv'.pc = "sleep"]_vars
    /\ [][(wv.pc = "sleep" /\ wv'.pc # "sleep") =>
            IF wv.queries = WebviewBudget
            THEN wv'.pc = "failed" /\ wv'.result = NoWebviewMsg
            ELSE wv'.pc = "query" /\ wv'.result = wv.result]_vars

C34_Witness ==
    /\ wv.pc = "returned"
    /\ wv.arg = <<>>
    /\ wv.queries = 3
    /\ wv.contexts = << <<"WEBVIEW", "_1">>, <<"WEBVIEW", "_2">> >>
    /\ wv.result = <<"WEBVIEW", "_2">>

\* C35: a bustAlert call that ends without a driver failure leaves the
\* session in the context it was called in, a webview context or NATIVE_APP,
\* whether an alert was dismissed or not; the step that tries to dismiss the
\* alert never fails the call.
C35_ContextRestored ==
    /\ [](ba.pc = "done" => (ba.sessionContext = ba.startContext /\ ba.error = "none"))
    /\ [][ba.pc = "alert" => (ba'.pc \in {"alert", "restore"} /\ ba'.error = "none")]_vars

C35_Witness ==
    /\ ba.pc = "done"
    /\ ba.alert = "dismissed"
    /\ ba.platform = ANDROID
    /\ ba.startContext = <<"WEBVIEW", "_1">>
    /\ ba.sessionContext = <<"WEBVIEW", "_1">>

\* C36: in the connect step getDriver is called at most three times, and
\* failedToStart is false only if one of the calls created a session.
C36_FlagFalseOnlyAfterSession ==
    conn.pc # "idle" =>
        /\ conn.attempts <= 3
        /\ ~conn.failedToStart => conn.sessionCreated

====
